---- MODULE Spec2Model ----
(***************************************************************************)
(* Message-processing pipeline of the F5 API Security chat front-end:      *)
(* sanitizer, message model, history truncation, RAG augmentation, the     *)
(* chat-completion client and the per-turn orchestrator                    *)
(* (chat.py, modules/api.py, modules/utils.py, constants.py).              *)
(*                                                                         *)
(* Python values are tagged records [t |-> <type>, v |-> <value>].         *)
(* A Python str is run-length encoded: a sequence of runs [c, n], n >= 1,  *)
(* where c is a single character repeated n times, or a fixed literal of   *)
(* the source whose length is n, so that texts around the real length      *)
(* limit of the code (10,000 characters) stay small values.                *)
(***************************************************************************)
EXTENDS Integers, Sequences, FiniteSets, TLC

VARIABLES
    messages,          \* st.session_state.messages: the stored conversation
    messages_to_send,  \* process_user_message's outgoing snapshot
    next_id,           \* identity of the next dict object to be created
    pc,                \* position of the turn
    cfg,               \* st.session_state configuration read by the turn
    user_input,        \* the prompt of the current turn
    rag_results,       \* result of query_vector_db in the current turn
    post,              \* outcome of the POST to the completions endpoint
    response,          \* what chat_completion gave process_user_message
    surfaced,          \* the texts shown with st.error in the current turn
    net,               \* the remote calls issued in the current turn, in order
    step1,             \* the conversation right after the user append
    turns,             \* number of turns started
    call,              \* a direct call of one pure function: its arguments
    ret                \* ... and its result

vars == <<messages, messages_to_send, next_id, pc, cfg, user_input, rag_results,
          post, response, surfaced, net, step1, turns, call, ret>>

(***************************************************************************)
(* Python values                                                           *)
(***************************************************************************)
PyNone == [t |-> "none"]
PyStr(s) == [t |-> "str", v |-> s]
PyInt(i) == [t |-> "int", v |-> i]
PyList(l) == [t |-> "list", v |-> l]
PyDict(d) == [t |-> "dict", v |-> d]

IsStr(x) == x.t = "str"

NUL == "\\x00"
Chars == {"a", "b", NUL}

Run(c, n) == [c |-> c, n |-> n]

\* len(s)
RECURSIVE StrLen(_)
StrLen(s) == IF s = <<>> THEN 0 ELSE s[1].n + StrLen(Tail(s))

\* Adjacent runs of the same character are one run, so that equal strings
\* are equal values.
RECURSIVE Canon(_)
Canon(s) ==
    IF Len(s) <= 1 THEN s
    ELSE IF s[1].c = s[2].c /\ s[1].c \in Chars
         THEN Canon(<<Run(s[1].c, s[1].n + s[2].n)>> \o SubSeq(s, 3, Len(s)))
         ELSE <<s[1]>> \o Canon(Tail(s))

\* s.replace(c, '')
Replace(s, c) == Canon(SelectSeq(s, LAMBDA r : r.c # c))

\* s[:k] for k >= 0
RECURSIVE Prefix(_, _)
Prefix(s, k) ==
    IF s = <<>> \/ k <= 0 THEN <<>>
    ELSE IF s[1].n >= k THEN <<Run(s[1].c, k)>>
         ELSE <<s[1]>> \o Prefix(Tail(s), k - s[1].n)

\* c in s, for a single character c
HasChar(s, c) == \E i \in DOMAIN s : s[i].c = c

\* bool(x) for the values the pipeline tests for truth
Truthy(x) ==
    CASE x.t = "none" -> FALSE
      [] x.t = "str"  -> x.v # <<>>
      [] x.t = "list" -> x.v # <<>>
      [] x.t = "dict" -> DOMAIN x.v # {}
      [] x.t = "int"  -> x.v # 0
      [] OTHER        -> TRUE

(***************************************************************************)
(* Sanitizer: APIClient._sanitize_input                                    *)
(***************************************************************************)
max_length == 10000

NoLimit_sanitize_input(text) ==
    IF ~IsStr(text) THEN PyStr(<<>>)
    ELSE PyStr(Replace(text.v, NUL))

_sanitize_input(text) ==
    IF ~IsStr(text) THEN PyStr(<<>>)
    ELSE LET sanitized == Replace(text.v, NUL)
         IN  IF StrLen(sanitized) > max_length
             THEN PyStr(Prefix(sanitized, max_length))
             ELSE PyStr(sanitized)

(***************************************************************************)
(* Message model: format_chat_message.  A message is a dict object; id is  *)
(* the object's identity, so that two lists holding the same object can be *)
(* told from two lists holding equal objects.                              *)
(***************************************************************************)
valid_roles == {"user", "assistant", "system"}

format_chat_message(id, role, content) ==
    [t |-> "dict", id |-> id,
     role |-> IF role \notin valid_roles THEN "user" ELSE role,
     content |-> content]

\* What a reader of a list of messages sees: roles and contents.
View(msgs) == [i \in DOMAIN msgs |-> [role |-> msgs[i].role, content |-> msgs[i].content]]

\* obj["content"] = value, seen through every list that holds the object id
SetContent(msgs, id, value) ==
    [i \in DOMAIN msgs |->
        IF msgs[i].id = id THEN [msgs[i] EXCEPT !.content = value] ELSE msgs[i]]

(***************************************************************************)
(* History manager: truncate_conversation_history                          *)
(***************************************************************************)
\* seq[start:] with Python's meaning of a negative start
SliceFrom(seq, start) ==
    LET n == Len(seq)
        from == IF start >= 0 THEN start
                ELSE IF n + start > 0 THEN n + start ELSE 0
    IN  SubSeq(seq, from + 1, n)

NoEarlyReturn_truncate(msgs, max_messages) ==
    LET system_messages == SelectSeq(msgs, LAMBDA m : m.role = "system")
        conversation == SelectSeq(msgs, LAMBDA m : m.role # "system")
    IN  system_messages \o SliceFrom(conversation, -(max_messages - Len(system_messages)))

truncate_conversation_history(msgs, max_messages) ==
    IF Len(msgs) <= max_messages THEN msgs
    ELSE LET system_messages == SelectSeq(msgs, LAMBDA m : m.role = "system")
             conversation == SelectSeq(msgs, LAMBDA m : m.role # "system")
             recent_conversation ==
                 SliceFrom(conversation, -(max_messages - Len(system_messages)))
         IN  system_messages \o recent_conversation

(***************************************************************************)
(* Texts of the program: constants.ERROR_MESSAGES and the literals of the  *)
(* error paths.  A literal is one run whose c is its text and whose n is   *)
(* its length.                                                             *)
(***************************************************************************)
Lit(text, n) == <<Run(text, n)>>

ERROR_MESSAGES ==
    [connection |-> Lit("Failed to connect to the endpoint. Please check your configuration.", 67),
     rate_limit |-> Lit("Rate limit exceeded. Please try again later.", 44),
     timeout    |-> Lit("Request timed out. The service may be overloaded.", 49)]

CHAT_COMPLETIONS_ENDPOINT == Lit("/chat/completions", 17)

\* The words format_error_message looks for, as each literal holds them
\* (case-folded, as error.lower() is searched; digits are their own fold).
Keywords(c) ==
    CASE c = "Rate limit exceeded. Please try again later." -> {"rate limit"}
      [] c = "429" -> {"429"}
      [] c = "401" -> {"401"}
      [] c = "HTTPConnectionPool: Max retries exceeded (Caused by NewConnectionError)" -> {"connection"}
      [] OTHER -> {}

\* kw in error.lower()  /  kw in error
Mentions(error, kw) == \E i \in DOMAIN error : kw \in Keywords(error[i].c)

WarningSign == Lit("<warning sign> ", 3)

\* utils.format_error_message: the text shown for an error string
format_error_message(error) ==
    IF Mentions(error, "rate limit") \/ Mentions(error, "429")
    THEN WarningSign \o ERROR_MESSAGES.rate_limit
    ELSE IF Mentions(error, "timeout")
    THEN WarningSign \o ERROR_MESSAGES.timeout
    ELSE IF Mentions(error, "connection")
    THEN WarningSign \o ERROR_MESSAGES.connection
    ELSE IF Mentions(error, "authentication") \/ Mentions(error, "401")
    THEN WarningSign \o Lit("Authentication failed. Please check your API key.", 49)
    ELSE WarningSign \o Lit("Error: ", 7) \o error

(***************************************************************************)
(* What the network can do to one request (requests.post):                 *)
(*   [k |-> "timeout"]            requests.exceptions.Timeout              *)
(*   [k |-> "connection_error"]   requests.exceptions.ConnectionError      *)
(*   [k |-> "status", code, json, body]   a response; json says whether    *)
(*       the body decodes, body is the decoded value.                      *)
(***************************************************************************)
Timeout == [k |-> "timeout"]
ConnectionError == [k |-> "connection_error"]
Status(code, body) == [k |-> "status", code |-> code, json |-> TRUE, body |-> body]
NotJson(code) == [k |-> "status", code |-> code, json |-> FALSE, body |-> PyNone]

\* str(e) of the exceptions requests raises
StrConnectionError ==
    Lit("HTTPConnectionPool: Max retries exceeded (Caused by NewConnectionError)", 71)
StrHTTPError(code, url) ==
    Lit(ToString(code), 3)
    \o Lit(IF code < 500 THEN " Client Error: for url: " ELSE " Server Error: for url: ", 24)
    \o url
StrJSONDecodeError == Lit("Expecting value: line 1 column 1 (char 0)", 41)

\* Response.raise_for_status raises HTTPError for 400 <= status < 600
RaisesForStatus(code) == 400 <= code /\ code < 600

(***************************************************************************)
(* Message validation: APIClient._validate_messages.  An entry that is a   *)
(* dict is a record of its keys: role holds a role that is a str,          *)
(* role_other a role of another type, content a Python value.              *)
(***************************************************************************)
\* msg.get("role") is a list or a dict: `role not in valid_roles` hashes it
\* and raises TypeError (unhashable type), which nothing here catches
RoleUnhashable(msg) ==
    /\ msg.t = "dict"
    /\ "role" \notin DOMAIN msg
    /\ "role_other" \in DOMAIN msg
    /\ msg.role_other.t \in {"list", "dict"}

\* the test of lines 249-256 on one entry
WellFormed(msg) ==
    /\ msg.t = "dict"
    /\ "role" \in DOMAIN msg
    /\ msg.role \in valid_roles
    /\ "content" \in DOMAIN msg
    /\ IsStr(msg.content)

ValidatedOf(seq) ==
    LET kept == SelectSeq(seq, WellFormed)
    IN  [i \in 1..Len(kept) |->
            [t |-> "dict", role |-> kept[i].role,
             content |-> _sanitize_input(kept[i].content)]]

\* The result says whether the call returned or raised, and what it returned.
_validate_messages(msgs) ==
    IF msgs.t # "list" THEN [raised |-> FALSE, value |-> PyNone]
    ELSE IF \E i \in DOMAIN msgs.v : RoleUnhashable(msgs.v[i])
    THEN [raised |-> TRUE, value |-> PyNone]
    ELSE LET validated == ValidatedOf(msgs.v)
         IN  [raised |-> FALSE,
              value |-> IF validated # <<>> THEN PyList(validated) ELSE PyNone]

(***************************************************************************)
(* APIClient.chat_completion.  The result says whether the call returned   *)
(* or raised, what it returned, and the request body it sent (PyNone when  *)
(* no request was issued).  The sampling parameters are numbers.           *)
(***************************************************************************)
Returned(value, sent) == [raised |-> FALSE, value |-> value, sent |-> sent]

ErrorResult(text) == PyDict([error |-> PyStr(text)])

\* The try block without the special case of status 429
Post_NoRateLimitCase(url, outcome) ==
    IF outcome.k = "timeout"
    THEN [raised |-> FALSE, value |-> ErrorResult(ERROR_MESSAGES.timeout)]
    ELSE IF outcome.k = "connection_error"
    THEN [raised |-> FALSE, value |-> ErrorResult(StrConnectionError)]
    ELSE IF RaisesForStatus(outcome.code)
    THEN [raised |-> FALSE, value |-> ErrorResult(StrHTTPError(outcome.code, url))]
    ELSE IF ~outcome.json
    THEN [raised |-> FALSE, value |-> ErrorResult(StrJSONDecodeError)]
    ELSE [raised |-> FALSE, value |-> outcome.body]

\* The try block with a decode failure that no except clause catches
Post_DecodeErrorEscapes(url, outcome) ==
    IF outcome.k = "timeout"
    THEN [raised |-> FALSE, value |-> ErrorResult(ERROR_MESSAGES.timeout)]
    ELSE IF outcome.k = "connection_error"
    THEN [raised |-> FALSE, value |-> ErrorResult(StrConnectionError)]
    ELSE IF outcome.code = 429
    THEN [raised |-> FALSE, value |-> ErrorResult(ERROR_MESSAGES.rate_limit)]
    ELSE IF RaisesForStatus(outcome.code)
    THEN [raised |-> FALSE, value |-> ErrorResult(StrHTTPError(outcome.code, url))]
    ELSE IF ~outcome.json
    THEN [raised |-> TRUE, value |-> PyNone]
    ELSE [raised |-> FALSE, value |-> outcome.body]

\* chat_completion's try block, lines 147-168: what the call gives for one
\* outcome of requests.post.  Timeout and every other RequestException
\* (ConnectionError, the HTTPError of raise_for_status, the JSONDecodeError
\* of response.json()) are caught and returned as {"error": ...}.
PostCompletion(url, outcome) ==
    IF outcome.k = "timeout"
    THEN [raised |-> FALSE, value |-> ErrorResult(ERROR_MESSAGES.timeout)]
    ELSE IF outcome.k = "connection_error"
    THEN [raised |-> FALSE, value |-> ErrorResult(StrConnectionError)]
    ELSE IF outcome.code = 429
    THEN [raised |-> FALSE, value |-> ErrorResult(ERROR_MESSAGES.rate_limit)]
    ELSE IF RaisesForStatus(outcome.code)
    THEN [raised |-> FALSE, value |-> ErrorResult(StrHTTPError(outcome.code, url))]
    ELSE IF ~outcome.json
    THEN [raised |-> FALSE, value |-> ErrorResult(StrJSONDecodeError)]
    ELSE [raised |-> FALSE, value |-> outcome.body]

chat_completion(base_url, msgs, model, temperature, max_tokens, top_p, stream, outcome) ==
    LET validation == _validate_messages(msgs)
        validated_messages == validation.value
        payload == PyDict([model |-> model, messages |-> validated_messages,
                           temperature |-> temperature, max_tokens |-> max_tokens,
                           top_p |-> top_p, stream |-> stream])
        url == base_url \o CHAT_COMPLETIONS_ENDPOINT
    IN  IF validation.raised      \* line 133 is outside the try block
        THEN [raised |-> TRUE, value |-> PyNone, sent |-> PyNone]
        ELSE IF ~Truthy(validated_messages) THEN Returned(PyNone, PyNone)
        ELSE LET r == PostCompletion(url, outcome)
             IN  [raised |-> r.raised, value |-> r.value, sent |-> payload]

(***************************************************************************)
(* APIClient.test_connection.  The GET of the models listing can, beside   *)
(* the outcomes above, fail with another exception of requests (here       *)
(* TooManyRedirects).  The result is the pair the method returns.          *)
(***************************************************************************)
TooManyRedirects == [k |-> "too_many_redirects"]
StrTooManyRedirects == Lit("Exceeded 30 redirects.", 22)

Pair(ok, message) == [raised |-> FALSE, ok |-> ok, message |-> PyStr(message)]

\* The method without its branch for status 404
No404_test_connection(outcome) ==
    IF outcome.k = "timeout" THEN Pair(FALSE, ERROR_MESSAGES.timeout)
    ELSE IF outcome.k = "connection_error" THEN Pair(FALSE, ERROR_MESSAGES.connection)
    ELSE IF outcome.k # "status"
    THEN Pair(FALSE, Lit("Unexpected error: ", 18) \o StrTooManyRedirects)
    ELSE IF outcome.code = 200 THEN Pair(TRUE, Lit("Connection successful", 21))
    ELSE IF outcome.code = 401
    THEN Pair(FALSE, Lit("Authentication failed. Check your API key.", 42))
    ELSE Pair(FALSE, Lit("Connection failed with status ", 30)
                     \o Lit(ToString(outcome.code), 3))

test_connection(outcome) ==
    IF outcome.k = "timeout" THEN Pair(FALSE, ERROR_MESSAGES.timeout)
    ELSE IF outcome.k = "connection_error" THEN Pair(FALSE, ERROR_MESSAGES.connection)
    ELSE IF outcome.k # "status"
    THEN Pair(FALSE, Lit("Unexpected error: ", 18) \o StrTooManyRedirects)
    ELSE IF outcome.code = 200 THEN Pair(TRUE, Lit("Connection successful", 21))
    ELSE IF outcome.code = 401
    THEN Pair(FALSE, Lit("Authentication failed. Check your API key.", 42))
    ELSE IF outcome.code = 404
    THEN Pair(FALSE, Lit("Endpoint not found. Check your URL.", 35))
    ELSE Pair(FALSE, Lit("Connection failed with status ", 30)
                     \o Lit(ToString(outcome.code), 3))

(***************************************************************************)
(* APIClient.query_vector_db                                               *)
(***************************************************************************)
\* The method sending the query as it was given
NoSanitize_query_vector_db(query, vector_db_ids, outcome) ==
    IF ~Truthy(query) \/ ~IsStr(query) THEN Returned(PyNone, PyNone)
    ELSE LET payload == PyDict([content |-> query, vector_db_ids |-> vector_db_ids])
         IN  IF outcome.k # "status" THEN Returned(PyNone, payload)
             ELSE IF RaisesForStatus(outcome.code) THEN Returned(PyNone, payload)
             ELSE IF ~outcome.json THEN Returned(PyNone, payload)
             ELSE Returned(outcome.body, payload)

query_vector_db(query, vector_db_ids, outcome) ==
    IF ~Truthy(query) \/ ~IsStr(query) THEN Returned(PyNone, PyNone)
    ELSE LET sanitized_query == _sanitize_input(query)
             payload == PyDict([content |-> sanitized_query,
                                vector_db_ids |-> vector_db_ids])
         IN  IF outcome.k # "status" THEN Returned(PyNone, payload)
             ELSE IF RaisesForStatus(outcome.code) THEN Returned(PyNone, payload)
             ELSE IF ~outcome.json THEN Returned(PyNone, payload)
             ELSE Returned(outcome.body, payload)

(***************************************************************************)
(* Response normalizer: utils.extract_assistant_message.  A dict is a      *)
(* record of its keys; the model's lists and strings never hold a key      *)
(* name, so `key in x` is false for them; for None and numbers it raises   *)
(* TypeError, which the function's except clause turns into None.          *)
(***************************************************************************)
InRaises(x) == x.t \in {"none", "int"}
In(key, x) == x.t = "dict" /\ key \in DOMAIN x.v
Get(d, key) == IF key \in DOMAIN d.v THEN d.v[key] ELSE PyNone

\* x["message"].get("content"): AttributeError unless the message is a dict
MessageContent(x) ==
    IF x.v.message.t = "dict" THEN Get(x.v.message, "content") ELSE PyNone

FlatMessage(resp) ==
    IF In("message", resp) THEN MessageContent(resp) ELSE PyNone

\* The flat shape tried before the choices shape
FlatFirst_extract(resp) ==
    IF InRaises(resp) THEN PyNone
    ELSE IF In("message", resp) THEN MessageContent(resp)
    ELSE IF ~In("choices", resp) THEN PyNone
    ELSE LET choices == resp.v.choices
         IN  IF choices.t # "list" \/ ~Truthy(choices) THEN PyNone
             ELSE LET choice == choices.v[1]
                  IN  IF InRaises(choice) THEN PyNone
                      ELSE IF In("message", choice) THEN MessageContent(choice)
                      ELSE IF In("text", choice) THEN Get(choice, "text")
                      ELSE PyNone

extract_assistant_message(resp) ==
    IF InRaises(resp) THEN PyNone
    ELSE IF ~In("choices", resp) THEN FlatMessage(resp)
    ELSE LET choices == resp.v.choices
         IN  IF choices.t \in {"none", "int"} THEN PyNone       \* len() raises
             ELSE IF ~Truthy(choices) THEN FlatMessage(resp) \* len(...) = 0
             ELSE IF choices.t = "dict" THEN PyNone              \* KeyError: 0
             ELSE IF choices.t = "str" THEN FlatMessage(resp)
             ELSE LET choice == choices.v[1]
                  IN  IF InRaises(choice) THEN PyNone
                      ELSE IF In("message", choice) THEN MessageContent(choice)
                      ELSE IF In("text", choice) THEN Get(choice, "text")
                      ELSE FlatMessage(resp)

(***************************************************************************)
(* RAG augmenter: utils.enhance_prompt_with_rag.  user_message is a str    *)
(* (its runs); documents carry str contents.                               *)
(***************************************************************************)
RECURSIVE ContextParts(_, _)
ContextParts(docs, idx) ==
    IF docs = <<>> THEN <<>>
    ELSE LET doc == Head(docs)
             rest == ContextParts(Tail(docs), idx + 1)
             content == IF doc.t = "dict" /\ "content" \in DOMAIN doc.v
                        THEN doc.v.content ELSE PyStr(<<>>)
         IN  IF doc.t = "dict" /\ Truthy(content)
             THEN <<Lit("[Document " \o ToString(idx) \o "]\n", 13) \o content.v>> \o rest
             ELSE rest

\* sep.join(parts)
RECURSIVE Join(_, _)
Join(parts, sep) ==
    IF parts = <<>> THEN <<>>
    ELSE IF Len(parts) = 1 THEN parts[1]
    ELSE parts[1] \o sep \o Join(Tail(parts), sep)

\* enumerate(rag_context) without its start of 1
ZeroBased_enhance(user_message, rag_context, debug_mode) ==
    IF ~Truthy(rag_context) \/ rag_context.t # "list" THEN user_message
    ELSE LET context_parts == ContextParts(rag_context.v, 0)
             context_str == Join(context_parts, Lit("\n\n", 2))
         IN  IF context_parts = <<>> THEN user_message
             ELSE Lit("Based on the following context, please answer the user's question:\n\nContext:\n", 77)
                  \o context_str
                  \o Lit("\n\nUser Question: ", 17)
                  \o user_message
                  \o Lit("\n\nPlease provide a comprehensive answer based on the context provided above.", 76)

\* The template filled in although no document has a usable content
AlwaysTemplate_enhance(user_message, rag_context, debug_mode) ==
    IF ~Truthy(rag_context) \/ rag_context.t # "list" THEN user_message
    ELSE LET context_parts == ContextParts(rag_context.v, 1)
             context_str == Join(context_parts, Lit("\n\n", 2))
         IN  Lit("Based on the following context, please answer the user's question:\n\nContext:\n", 77)
             \o context_str
             \o Lit("\n\nUser Question: ", 17)
             \o user_message
             \o Lit("\n\nPlease provide a comprehensive answer based on the context provided above.", 76)

enhance_prompt_with_rag(user_message, rag_context, debug_mode) ==
    IF ~Truthy(rag_context) \/ rag_context.t # "list" THEN user_message
    ELSE LET context_parts == ContextParts(rag_context.v, 1)
             context_str == Join(context_parts, Lit("\n\n", 2))
         IN  IF context_parts = <<>> THEN user_message
             ELSE Lit("Based on the following context, please answer the user's question:\n\nContext:\n", 77)
                  \o context_str
                  \o Lit("\n\nUser Question: ", 17)
                  \o user_message
                  \o Lit("\n\nPlease provide a comprehensive answer based on the context provided above.", 76)

(***************************************************************************)
(* Configuration and inputs of a turn.  The configuration lives in         *)
(* st.session_state and is written by the sidebar and by whatever else     *)
(* shares the session; the turn only reads it.  Sampling parameters are    *)
(* the defaults of constants.py (temperature in tenths, top_p in           *)
(* hundredths).                                                            *)
(***************************************************************************)
MAX_CONVERSATION_HISTORY == 50
DEFAULT_TEMPERATURE_TENTHS == 7
DEFAULT_MAX_TOKENS == 512
DEFAULT_TOP_P_HUNDREDTHS == 95

MaxTurns == 2

DEFAULT_CHAT_ENDPOINT == Lit("http://llamastack:8321/v1/openai/v1", 35)
DEFAULT_MODEL == "remote-llm/RedHatAI/Llama-3.2-1B-Instruct-quantized.w8a8"

Config(url, rag, dbs, debug) ==
    [endpoint_url |-> url, model_id |-> DEFAULT_MODEL,
     rag_enabled |-> rag, selected_vector_dbs |-> dbs, debug_mode |-> debug,
     temperature |-> DEFAULT_TEMPERATURE_TENTHS, max_tokens |-> DEFAULT_MAX_TOKENS,
     top_p |-> DEFAULT_TOP_P_HUNDREDTHS]

Configs ==
    { Config(DEFAULT_CHAT_ENDPOINT, TRUE, <<>>, FALSE),        \* initialize_session_state
      Config(DEFAULT_CHAT_ENDPOINT, TRUE, <<"db1">>, FALSE),
      Config(DEFAULT_CHAT_ENDPOINT, FALSE, <<"db1">>, FALSE),
      Config(<<>>, TRUE, <<>>, FALSE) }

\* What st.chat_input can hand over: any non-empty text.
Prompts ==
    { <<Run("a", 1)>>,
      <<Run("a", max_length), Run(NUL, 1), Run("b", 1)>> }

Doc(content) == PyDict([content |-> PyStr(content)])
AssistantText == <<Run("b", 1)>>

\* Outcomes of the POST to the RAG query endpoint
VectorOutcomes ==
    << Status(200, PyList(<<Doc(<<Run("b", 2)>>)>>)),
       Status(200, PyList(<<Doc(<<>>)>>)),
       Status(200, PyList(<<>>)),
       Status(200, PyDict([chunks |-> PyList(<<>>)])),
       Status(500, PyNone),
       NotJson(200),
       Timeout,
       ConnectionError >>

Choices(content) ==
    PyDict([choices |-> PyList(<<PyDict([message |-> PyDict([content |-> content])])>>)])

\* Outcomes of the POST to the completions endpoint
PostOutcomes ==
    << Status(200, Choices(PyStr(AssistantText))),
       Status(200, Choices(PyStr(<<>>))),
       Status(200, Choices(PyNone)),
       Status(200, PyDict([message |-> PyDict([content |-> PyStr(AssistantText)])])),
       Status(200, PyDict([error |-> PyStr(Lit("model overloaded", 16))])),
       Status(200, PyDict(<<>>)),
       Status(200, PyList(<<>>)),
       Status(200, PyNone),
       NotJson(200),
       Status(302, Choices(PyStr(AssistantText))),
       Status(429, PyNone),
       Status(401, PyNone),
       Status(404, PyNone),
       Status(500, PyNone),
       Timeout,
       ConnectionError >>

NoPost == [k |-> "none"]
NoResult == Returned(PyNone, PyNone)

(***************************************************************************)
(* APIClient.__init__                                                      *)
(***************************************************************************)
\* base_url.rstrip('/')
RECURSIVE RStripSlash(_)
RStripSlash(s) ==
    IF s # <<>> /\ s[Len(s)].c = "/" THEN RStripSlash(SubSeq(s, 1, Len(s) - 1)) ELSE s

APIClient(base_url) ==
    IF base_url = <<>> THEN [raised |-> TRUE, base_url |-> <<>>]
    ELSE [raised |-> FALSE, base_url |-> RStripSlash(base_url)]

(***************************************************************************)
(* Orchestrator: chat.render_chat_interface and chat.process_user_message, *)
(* one turn cut at its two remote calls.                                   *)
(***************************************************************************)
BetweenTurns == pc \in {"Idle", "Appended", "Failed"}

FailedToGetResponse == Lit("Failed to get response from the model", 37)

\* render_chat_interface, lines 228-231: the prompt arrives and the user
\* message is appended; process_user_message is entered.
Submit(prompt, c) ==
    /\ BetweenTurns
    /\ turns < MaxTurns
    /\ LET user_message == format_chat_message(next_id, "user", PyStr(prompt))
       IN  /\ messages' = Append(messages, user_message)
           /\ step1' = View(Append(messages, user_message))
    /\ next_id' = next_id + 1
    /\ cfg' = c
    /\ user_input' = prompt
    /\ messages_to_send' = <<>>
    /\ rag_results' = PyNone
    /\ post' = NoPost
    /\ response' = NoResult
    /\ surfaced' = <<>>
    /\ net' = <<>>
    /\ turns' = turns + 1
    /\ pc' = "Augmenting"
    /\ UNCHANGED <<call, ret>>

\* The condition of line 286 with "or" in the place of "and"
RagConfigured_Either(c) == c.rag_enabled \/ c.selected_vector_dbs # <<>>

\* process_user_message, line 286: the vector store is queried when RAG is
\* enabled and the list of selected vector databases is not empty
RagConfigured(c) == c.rag_enabled /\ c.selected_vector_dbs # <<>>

\* process_user_message, lines 273-312: client construction, the snapshot,
\* the vector query and the rewrite of the last user message.
\* messages.copy() is a new list of the same dict objects, so the item
\* assignment of line 304 writes the object that both lists hold.
Augment(outcome) ==
    /\ pc = "Augmenting"
    /\ IF APIClient(cfg.endpoint_url).raised
       THEN \* ValueError, caught at line 347; render_chat_interface line 255
            /\ surfaced' = <<format_error_message(Lit("Base URL cannot be empty", 24)),
                             FailedToGetResponse>>
            /\ pc' = "Failed"
            /\ UNCHANGED <<messages, messages_to_send, rag_results, net>>
       ELSE IF RagConfigured(cfg)
       THEN LET q == query_vector_db(PyStr(user_input), cfg.selected_vector_dbs, outcome)
                enhanced_input ==
                    enhance_prompt_with_rag(user_input, q.value, cfg.debug_mode)
                copy == messages
                last == copy[Len(copy)]
                rewrite == Truthy(q.value) /\ copy # <<>> /\ last.role = "user"
            IN  /\ rag_results' = q.value
                /\ net' = IF q.sent.t = "none" THEN net
                          ELSE Append(net, [op |-> "query_vector_db", sent |-> q.sent])
                /\ messages_to_send' =
                       IF rewrite THEN SetContent(copy, last.id, PyStr(enhanced_input))
                       ELSE copy
                /\ messages' =
                       IF rewrite THEN SetContent(messages, last.id, PyStr(enhanced_input))
                       ELSE messages
                /\ pc' = "Dispatching"
                /\ UNCHANGED surfaced
       ELSE /\ messages_to_send' = messages
            /\ pc' = "Dispatching"
            /\ UNCHANGED <<messages, rag_results, net, surfaced>>
    /\ UNCHANGED <<next_id, cfg, user_input, post, response, step1, turns, call, ret>>

\* process_user_message, lines 314-322: the chat completion
Dispatch(outcome) ==
    /\ pc = "Dispatching"
    /\ LET client == APIClient(cfg.endpoint_url)
           r == chat_completion(client.base_url, PyList(messages_to_send), cfg.model_id,
                                cfg.temperature, cfg.max_tokens, cfg.top_p, FALSE, outcome)
       IN  /\ response' = r
           /\ post' = IF r.sent.t = "none" THEN NoPost ELSE outcome
           /\ net' = IF r.sent.t = "none" THEN net
                     ELSE Append(net, [op |-> "chat_completion", sent |-> r.sent])
    /\ pc' = "Normalizing"
    /\ UNCHANGED <<messages, messages_to_send, next_id, cfg, user_input, rag_results,
                   surfaced, step1, turns, call, ret>>

\* process_user_message, lines 328-351: what the turn returns and shows
\* for a result r of chat_completion
ProcessResponse(r) ==
    IF r.raised
    THEN [content |-> PyNone,
          shown |-> <<format_error_message(Lit("<exception text>", 16))>>]
    ELSE IF ~Truthy(r.value)
    THEN [content |-> PyNone, shown |-> <<Lit("No response received from API", 29)>>]
    ELSE IF InRaises(r.value)
    THEN [content |-> PyNone,
          shown |-> <<format_error_message(Lit("argument of type 'int' is not iterable", 38))>>]
    ELSE IF In("error", r.value)
    THEN [content |-> PyNone,
          shown |-> <<IF IsStr(r.value.v.error)
                      THEN format_error_message(r.value.v.error.v)
                      ELSE format_error_message(
                               Lit("'dict' object has no attribute 'lower'", 38))>>]
    ELSE LET content == extract_assistant_message(r.value)
         IN  IF Truthy(content)
             THEN [content |-> content, shown |-> <<>>]
             ELSE [content |-> PyNone,
                   shown |-> <<Lit("Could not extract response from API", 35)>>]

\* The end of the turn with the truncation before the assistant append
Normalize_TruncateFirst ==
    /\ pc = "Normalizing"
    /\ LET out == ProcessResponse(response)
       IN  IF Truthy(out.content)
           THEN LET assistant_message ==
                        format_chat_message(next_id, "assistant", out.content)
                IN  /\ messages' = Append(truncate_conversation_history(
                                              messages, MAX_CONVERSATION_HISTORY),
                                          assistant_message)
                    /\ next_id' = next_id + 1
                    /\ surfaced' = surfaced \o out.shown
                    /\ pc' = "Appended"
           ELSE /\ surfaced' = surfaced \o out.shown \o <<FailedToGetResponse>>
                /\ pc' = "Failed"
                /\ UNCHANGED <<messages, next_id>>
    /\ UNCHANGED <<messages_to_send, cfg, user_input, rag_results, post, response,
                   net, step1, turns, call, ret>>

\* The end of the turn storing what it has of a reply when the turn fails
Normalize_PartialOnFailure ==
    /\ pc = "Normalizing"
    /\ LET out == ProcessResponse(response)
           assistant_message == format_chat_message(next_id, "assistant", out.content)
       IN  /\ messages' = truncate_conversation_history(
                              Append(messages, assistant_message),
                              MAX_CONVERSATION_HISTORY)
           /\ next_id' = next_id + 1
           /\ IF Truthy(out.content)
              THEN surfaced' = surfaced \o out.shown /\ pc' = "Appended"
              ELSE /\ surfaced' = surfaced \o out.shown \o <<FailedToGetResponse>>
                   /\ pc' = "Failed"
    /\ UNCHANGED <<messages_to_send, cfg, user_input, rag_results, post, response,
                   net, step1, turns, call, ret>>

\* ... and render_chat_interface, lines 242-255: the assistant append and
\* the truncation, or the failure message
Normalize ==
    /\ pc = "Normalizing"
    /\ LET out == ProcessResponse(response)
       IN  IF Truthy(out.content)
           THEN LET assistant_message ==
                        format_chat_message(next_id, "assistant", out.content)
                IN  /\ messages' = truncate_conversation_history(
                                       Append(messages, assistant_message),
                                       MAX_CONVERSATION_HISTORY)
                    /\ next_id' = next_id + 1
                    /\ surfaced' = surfaced \o out.shown
                    /\ pc' = "Appended"
           ELSE /\ surfaced' = surfaced \o out.shown \o <<FailedToGetResponse>>
                /\ pc' = "Failed"
                /\ UNCHANGED <<messages, next_id>>
    /\ UNCHANGED <<messages_to_send, cfg, user_input, rag_results, post, response,
                   net, step1, turns, call, ret>>

\* render_sidebar, lines 208-210: the Clear Conversation button
\* and st.rerun(): the script starts over, nothing of the last turn is shown
ClearConversation ==
    /\ BetweenTurns
    /\ messages # <<>>
    /\ messages' = <<>>
    /\ messages_to_send' = <<>>
    /\ user_input' = <<>>
    /\ rag_results' = PyNone
    /\ post' = NoPost
    /\ response' = NoResult
    /\ surfaced' = <<>>
    /\ net' = <<>>
    /\ step1' = <<>>
    /\ pc' = "Idle"
    /\ UNCHANGED <<next_id, cfg, turns, call, ret>>

\* A conversation the program reaches from the empty one by successful
\* turns: PreloadedLen / 2 exchanges of a one-character prompt and reply.
PreloadedLen == MAX_CONVERSATION_HISTORY - 2
Preloaded ==
    [i \in 1..PreloadedLen |->
        IF i % 2 = 1 THEN format_chat_message(i, "user", PyStr(<<Run("a", 1)>>))
        ELSE format_chat_message(i, "assistant", PyStr(AssistantText))]

NoCall == [fn |-> "none"]

SessionInit(history) ==
    /\ messages = history
    /\ messages_to_send = <<>>
    /\ next_id = Len(history) + 1
    /\ pc = "Idle"
    /\ cfg = Config(DEFAULT_CHAT_ENDPOINT, TRUE, <<>>, FALSE)
    /\ user_input = <<>>
    /\ rag_results = PyNone
    /\ post = NoPost
    /\ response = NoResult
    /\ surfaced = <<>>
    /\ net = <<>>
    /\ step1 = <<>>
    /\ turns = 0

Init ==
    /\ \E history \in {<<>>, Preloaded} : SessionInit(history)
    /\ call = NoCall
    /\ ret = PyNone

Next ==
    \/ \E prompt \in Prompts, c \in Configs : Submit(prompt, c)
    \/ \E i \in DOMAIN VectorOutcomes : Augment(VectorOutcomes[i])
    \/ \E i \in DOMAIN PostOutcomes : Dispatch(PostOutcomes[i])
    \/ Normalize
    \/ ClearConversation

Spec == Init /\ [][Next]_vars

\* A turn that was entered moves on: process_user_message is one synchronous
\* call that nothing suspends, and each remote call in it returns or times
\* out (timeout=VECTOR_SEARCH_TIMEOUT, timeout=REQUEST_TIMEOUT).  Augment,
\* Dispatch and Normalize have the position of the turn as their only guard,
\* so this step is enabled exactly where one of them is, and each of their
\* steps is one.
TurnMovesOn ==
    /\ pc \in {"Augmenting", "Dispatching", "Normalizing"}
    /\ pc' \in {"Dispatching", "Normalizing", "Appended", "Failed"}

FairSpec == Spec /\ WF_pc(TurnMovesOn)

(***************************************************************************)
(* Properties of the turn                                                  *)
(***************************************************************************)
AfterAugment == pc \in {"Dispatching", "Normalizing", "Appended", "Failed"}
AfterDispatch == pc \in {"Normalizing", "Appended", "Failed"}

\* The vector query of this turn gave a non-empty list of documents, each
\* with non-empty content, with RAG enabled and a database selected.
RagAugmented ==
    /\ cfg.rag_enabled
    /\ cfg.selected_vector_dbs # <<>>
    /\ rag_results.t = "list"
    /\ rag_results.v # <<>>
    /\ \A i \in DOMAIN rag_results.v :
           /\ rag_results.v[i].t = "dict"
           /\ "content" \in DOMAIN rag_results.v[i].v
           /\ Truthy(rag_results.v[i].v.content)

\* The stored entries with role user, in order; the last one is the user
\* message of the current turn.
StoredUserEntries == SelectSeq(messages, LAMBDA m : m.role = "user")
StoredUserEntry == StoredUserEntries[Len(StoredUserEntries)]

\* C1: in a turn where RAG is enabled, a vector database is selected and the
\* vector query returned documents with non-empty content, the user entry
\* stored in the conversation history still has exactly the original user
\* text once the augmentation has run (the augmented prompt is only in the
\* outgoing snapshot).
C1_StoredUserTextKept ==
    (AfterAugment /\ RagAugmented) => StoredUserEntry.content = PyStr(user_input)

\* chat_completion returned a structured error: a mapping with an error key
StructuredError(r) == ~r.raised /\ In("error", r.value)

\* C2: in every turn in which chatCompletion returns a structured error, no
\* assistant message is appended and the stored conversation after the turn
\* equals, role for role and content for content, the conversation right
\* after the user append of step 1.
C2_ErrorLeavesStep1History ==
    (pc = "Failed" /\ StructuredError(response)) => View(messages) = step1

\* C3: the stored conversation never holds more than the configured maximum
\* of messages, after the user append of step 1 and after the appends of
\* failed turns as well as after the assistant append.
C3_LengthWithinCap == Len(messages) <= MAX_CONVERSATION_HISTORY

\* Sanitized content: a string without NUL of at most 10,000 characters
Sanitized(content) ==
    /\ IsStr(content)
    /\ ~HasChar(content.v, NUL)
    /\ StrLen(content.v) <= max_length

\* C7: every message stored in the conversation history has sanitized
\* content: no NUL character and at most 10,000 characters.
C7_StoredContentSanitized ==
    \A i \in DOMAIN messages : Sanitized(messages[i].content)

\* The result is the rate-limit error and nothing else
IsRateLimitResult(r) ==
    /\ ~r.raised
    /\ r.value.t = "dict"
    /\ DOMAIN r.value.v = {"error"}
    /\ IsStr(r.value.v.error)
    /\ r.value.v.error.v = ERROR_MESSAGES.rate_limit

Answered(code) == post.k = "status" /\ post.code = code
Is2xx(code) == 200 <= code /\ code < 300

\* C9: a 429 from the completions endpoint makes chat_completion return the
\* rate-limit error, the turn shows the rate-limit message for it, and no
\* other non-2xx status gives that result.
C9_RateLimitSurfacedDistinctly ==
    /\ (AfterDispatch /\ Answered(429)) => IsRateLimitResult(response)
    /\ (pc \in {"Appended", "Failed"} /\ Answered(429)) =>
           /\ pc = "Failed"
           /\ surfaced = <<WarningSign \o ERROR_MESSAGES.rate_limit, FailedToGetResponse>>
    /\ (AfterDispatch /\ post.k = "status" /\ post.code # 429 /\ ~Is2xx(post.code)) =>
           ~IsRateLimitResult(response)

C9_Witness == pc = "Failed" /\ Answered(429)

\* A structured error result: a mapping whose error entry is a non-empty text
CarriesMessage(value) ==
    /\ value.t = "dict"
    /\ DOMAIN value.v = {"error"}
    /\ IsStr(value.v.error)
    /\ value.v.error.v # <<>>

\* The outcomes for which the code decodes and returns the body
BodyReturned(o) ==
    o.k = "status" /\ o.code # 429 /\ ~RaisesForStatus(o.code) /\ o.json

\* C10: whatever the POST does (2xx, 429, another status, timeout,
\* connection failure), chat_completion returns: the decoded body, or a
\* structured error carrying a message; it never raises.
C10_ChatCompletionNeverRaises ==
    (AfterDispatch /\ post.k # "none") =>
        /\ ~response.raised
        /\ IF BodyReturned(post) THEN response.value = post.body
           ELSE CarriesMessage(response.value)

C10_Witness == pc = "Normalizing" /\ post.k = "status" /\ ~post.json

\* The n most recent entries of seq, for n >= 0
LastN(seq, n) == SubSeq(seq, Len(seq) - n + 1, Len(seq))
Min(a, b) == IF a <= b THEN a ELSE b

\* The conversation of step 1 followed by the assistant message holding the
\* text extracted from the completion response
WithAssistantReply ==
    Append(step1, [role |-> "assistant",
                   content |-> extract_assistant_message(response.value)])

\* C18: a successful turn with RAG disabled on a conversation H of fewer
\* than the cap's number of messages ends with the conversation H, the user
\* message, the assistant message holding the extracted text, in that order.
C18_SuccessfulTurnAppendsBoth ==
    (pc = "Appended" /\ ~cfg.rag_enabled /\ Len(step1) - 1 < MAX_CONVERSATION_HISTORY)
        => View(messages) = WithAssistantReply

\* C18 as amended: that holds for H of at most cap - 2 messages; for H of
\* cap - 1 messages the turn ends with the cap's number of most recent
\* messages of that sequence, the truncation having run after the assistant
\* append.
C18_SuccessfulTurnWithinCap ==
    (pc = "Appended" /\ ~cfg.rag_enabled) =>
        /\ Len(step1) + 1 <= MAX_CONVERSATION_HISTORY =>
               View(messages) = WithAssistantReply
        /\ Len(step1) = MAX_CONVERSATION_HISTORY =>
               /\ Len(messages) = MAX_CONVERSATION_HISTORY
               /\ View(messages) = LastN(WithAssistantReply, MAX_CONVERSATION_HISTORY)
               /\ messages[Len(messages)].role = "assistant"

C18_Witness ==
    /\ pc = "Appended"
    /\ ~cfg.rag_enabled
    /\ step1 = <<[role |-> "user", content |-> PyStr(<<Run("a", 1)>>)]>>
    /\ View(messages) = <<[role |-> "user", content |-> PyStr(<<Run("a", 1)>>)],
                          [role |-> "assistant", content |-> PyStr(AssistantText)]>>

TurnStates == {"Idle", "Augmenting", "Dispatching", "Normalizing", "Appended", "Failed"}

\* One step of the orchestrator moves the turn forward in the order Idle,
\* Augmenting, Dispatching, Normalizing, and ends it in Appended (from
\* Normalizing only) or in Failed.
TurnStepInOrder ==
    pc' # pc =>
        \/ BetweenTurns /\ pc' \in {"Augmenting", "Idle"}
        \/ pc = "Augmenting" /\ pc' \in {"Dispatching", "Failed"}
        \/ pc = "Dispatching" /\ pc' = "Normalizing"
        \/ pc = "Normalizing" /\ pc' \in {"Appended", "Failed"}

RolesOf(msgs) == [i \in DOMAIN msgs |-> msgs[i].role]

\* C19: every turn that was started ends in Appended or in Failed, its
\* states taken in the order Idle, Augmenting, Dispatching, Normalizing;
\* whatever the remote calls give, and with an empty endpoint URL, the
\* orchestrator is in no other state (the turn with the empty URL ends in
\* Failed with a message shown); and after a turn that ended in Failed the
\* history has the entries of step 1 and no assistant entry after them.
C19_TurnTerminatesInOrder ==
    /\ [][TurnStepInOrder]_vars
    /\ [](pc \in TurnStates)
    /\ []((AfterAugment /\ cfg.endpoint_url = <<>>) => (pc = "Failed" /\ surfaced # <<>>))
    /\ [](pc = "Failed" =>
             /\ RolesOf(messages) = RolesOf(step1)
             /\ messages[Len(messages)].role = "user")
    /\ (pc = "Augmenting") ~> (pc \in {"Appended", "Failed"})

C19_Witness ==
    /\ pc = "Failed"
    /\ cfg.endpoint_url = <<>>
    /\ net = <<>>
    /\ Len(messages) = Len(step1)

Issued(op) == {i \in DOMAIN net : net[i].op = op}

MaxConvLen == 4
MaxCap == 4

ConversationOf(roles) ==
    [i \in DOMAIN roles |-> format_chat_message(i, roles[i], PyStr(<<Run("a", i)>>))]

InitTruncate ==
    /\ SessionInit(<<>>)
    /\ \E n \in 0..MaxConvLen, cap \in 1..MaxCap :
           \E roles \in [1..n -> valid_roles] :
               call = [fn |-> "truncate", msgs |-> ConversationOf(roles),
                       max_messages |-> cap, done |-> FALSE]
    /\ ret = <<>>

TruncateCall ==
    /\ call.fn = "truncate"
    /\ ~call.done
    /\ ret' = truncate_conversation_history(call.msgs, call.max_messages)
    /\ call' = [call EXCEPT !.done = TRUE]
    /\ UNCHANGED <<messages, messages_to_send, next_id, pc, cfg, user_input, rag_results,
                   post, response, surfaced, net, step1, turns>>

NextTruncate == TruncateCall

SpecTruncate == InitTruncate /\ [][NextTruncate]_vars

SystemOf(msgs) == SelectSeq(msgs, LAMBDA m : m.role = "system")
NonSystemOf(msgs) == SelectSeq(msgs, LAMBDA m : m.role # "system")


\* C4: with more messages than the cap and at least as many system messages
\* as the cap, the result is all the system messages and no other message.
C4_NonPositiveKeepsZero ==
    (call.done /\ Len(call.msgs) > call.max_messages
               /\ Len(SystemOf(call.msgs)) >= call.max_messages)
        => ret = SystemOf(call.msgs)

\* C5: with k system messages and a cap of at least k, the result holds
\* exactly the k system messages and the min(cap - k, n) most recent of the
\* n other messages, each group in its original order, and the system
\* messages come first whenever anything was cut.
C5_SystemPlusMostRecent ==
    LET k == Len(SystemOf(call.msgs))
        keep == Min(call.max_messages - k, Len(NonSystemOf(call.msgs)))
    IN  (call.done /\ call.max_messages >= k) =>
            /\ SystemOf(ret) = SystemOf(call.msgs)
            /\ NonSystemOf(ret) = LastN(NonSystemOf(call.msgs), keep)
            /\ Len(call.msgs) > call.max_messages =>
                   ret = SystemOf(call.msgs) \o LastN(NonSystemOf(call.msgs), keep)

\* C6: a conversation within the cap comes back unchanged: the same
\* messages, same contents, same order, system messages where they were.
C6_NoOpWithinCap ==
    (call.done /\ Len(call.msgs) <= call.max_messages) => ret = call.msgs

C6_Witness ==
    /\ call.done
    /\ Len(call.msgs) <= call.max_messages
    /\ Len(call.msgs) >= 3
    /\ call.msgs[1].role = "user"
    /\ call.msgs[2].role = "system"
    /\ ret[2].role = "system"

(***************************************************************************)
(* _sanitize_input called directly: every text of up to MaxRuns runs over  *)
(* the characters a, b and NUL, with run lengths around the length limit,  *)
(* and values that are not text.                                           *)
(***************************************************************************)
MaxRuns == 3

RunLengths == {1, max_length - 1, max_length, max_length + 1}
Runs == [c : Chars, n : RunLengths]
IsCanon(s) == \A i \in 1..(Len(s) - 1) : s[i].c # s[i + 1].c

NonStrings == <<PyNone, PyInt(7), PyList(<<>>), PyDict(<<>>)>>

InitSanitize ==
    /\ SessionInit(<<>>)
    /\ \/ \E k \in 0..MaxRuns : \E s \in [1..k -> Runs] :
              /\ IsCanon(s)
              /\ call = [fn |-> "sanitize", text |-> PyStr(s), done |-> FALSE]
       \/ \E i \in DOMAIN NonStrings :
              call = [fn |-> "sanitize", text |-> NonStrings[i], done |-> FALSE]
    /\ ret = PyNone

SanitizeCall ==
    /\ call.fn = "sanitize"
    /\ ~call.done
    /\ ret' = _sanitize_input(call.text)
    /\ call' = [call EXCEPT !.done = TRUE]
    /\ UNCHANGED <<messages, messages_to_send, next_id, pc, cfg, user_input, rag_results,
                   post, response, surfaced, net, step1, turns>>

NextSanitize == SanitizeCall

SpecSanitize == InitSanitize /\ [][NextSanitize]_vars

MaxEntries == 2

StatusCodes == 100..599

Queries ==
    << PyStr(<<Run("a", 1)>>),
       PyStr(<<Run("a", max_length), Run(NUL, 1), Run("b", 1)>>),
       PyStr(<<Run(NUL, 1)>>),
       PyStr(<<>>),
       PyNone,
       PyInt(0),
       PyInt(7),
       PyList(<<>>),
       PyList(<<PyStr(<<Run("a", 1)>>)>>) >>

VectorDbIds == {<<>>, <<"db1">>, <<"db1", "db2">>}

\* Outcomes of the POST to the RAG query endpoint when called directly
QueryOutcomes ==
    VectorOutcomes
    \o << Status(201, PyList(<<>>)), Status(204, PyNone), Status(302, PyNone),
          Status(400, PyNone), Status(404, PyNone), Status(429, PyNone),
          NotJson(500), TooManyRedirects >>

ShortText == PyStr(<<Run("a", 1)>>)
DirtyText == PyStr(<<Run("a", max_length), Run(NUL, 1), Run("b", 1)>>)

EntryPool ==
    << [t |-> "dict", role |-> "user", content |-> ShortText],
       [t |-> "dict", role |-> "system", content |-> DirtyText],
       [t |-> "dict", role |-> "assistant", content |-> PyStr(<<>>)],
       [t |-> "dict", role |-> "tool", content |-> ShortText],
       [t |-> "dict", role |-> "assistant", content |-> PyInt(7)],
       [t |-> "dict", role |-> "user"],
       [t |-> "dict", content |-> ShortText],
       [t |-> "dict", role_other |-> PyInt(1), content |-> ShortText],
       [t |-> "dict", role_other |-> PyList(<<>>), content |-> ShortText],
       ShortText,
       PyNone >>

NotLists == <<PyNone, ShortText, PyDict([role |-> "user", content |-> ShortText])>>

session == <<messages, messages_to_send, next_id, pc, cfg, user_input, rag_results,
             post, response, surfaced, net, step1, turns>>

\* The sampling arguments of a direct call (temperature in tenths, top_p in
\* hundredths): the defaults, the ends of the sliders of chat.py:175-199,
\* and values below and above them, which a caller can pass as well
SamplingArgs ==
    << [temperature |-> DEFAULT_TEMPERATURE_TENTHS, max_tokens |-> DEFAULT_MAX_TOKENS,
        top_p |-> DEFAULT_TOP_P_HUNDREDTHS],
       [temperature |-> 0, max_tokens |-> 64, top_p |-> 0],
       [temperature |-> 20, max_tokens |-> 2048, top_p |-> 100],
       [temperature |-> 21, max_tokens |-> 2049, top_p |-> 101],
       [temperature |-> -1, max_tokens |-> 63, top_p |-> -1] >>

InitClient ==
    /\ SessionInit(<<>>)
    /\ \/ \E n \in 0..MaxEntries : \E f \in [1..n -> DOMAIN EntryPool] :
              \/ call = [fn |-> "_validate_messages",
                         msgs |-> PyList([i \in 1..n |-> EntryPool[f[i]]]),
                         done |-> FALSE]
              \/ \E o \in DOMAIN PostOutcomes, a \in DOMAIN SamplingArgs :
                     call = [fn |-> "chat_completion",
                             msgs |-> PyList([i \in 1..n |-> EntryPool[f[i]]]),
                             sampling |-> SamplingArgs[a],
                             outcome |-> PostOutcomes[o], done |-> FALSE]
       \/ \E j \in DOMAIN NotLists :
              \/ call = [fn |-> "_validate_messages", msgs |-> NotLists[j],
                         done |-> FALSE]
              \/ \E o \in DOMAIN PostOutcomes, a \in DOMAIN SamplingArgs :
                     call = [fn |-> "chat_completion", msgs |-> NotLists[j],
                             sampling |-> SamplingArgs[a],
                             outcome |-> PostOutcomes[o], done |-> FALSE]
       \/ \E code \in StatusCodes :
              call = [fn |-> "test_connection", outcome |-> Status(code, PyNone),
                      done |-> FALSE]
       \/ \E o \in {Timeout, ConnectionError, TooManyRedirects} :
              call = [fn |-> "test_connection", outcome |-> o, done |-> FALSE]
       \/ \E q \in DOMAIN Queries, ids \in VectorDbIds, o \in DOMAIN QueryOutcomes :
              call = [fn |-> "query_vector_db", query |-> Queries[q],
                      vector_db_ids |-> ids, outcome |-> QueryOutcomes[o],
                      done |-> FALSE]
    /\ ret = PyNone

ValidateCall ==
    /\ call.fn = "_validate_messages"
    /\ ~call.done
    /\ ret' = _validate_messages(call.msgs)
    /\ call' = [call EXCEPT !.done = TRUE]
    /\ UNCHANGED session

CompletionCall ==
    /\ call.fn = "chat_completion"
    /\ ~call.done
    /\ ret' = chat_completion(APIClient(DEFAULT_CHAT_ENDPOINT).base_url, call.msgs,
                              DEFAULT_MODEL, call.sampling.temperature,
                              call.sampling.max_tokens, call.sampling.top_p, FALSE,
                              call.outcome)
    /\ call' = [call EXCEPT !.done = TRUE]
    /\ UNCHANGED session

ConnectionCall ==
    /\ call.fn = "test_connection"
    /\ ~call.done
    /\ ret' = test_connection(call.outcome)
    /\ call' = [call EXCEPT !.done = TRUE]
    /\ UNCHANGED session

QueryCall ==
    /\ call.fn = "query_vector_db"
    /\ ~call.done
    /\ ret' = query_vector_db(call.query, call.vector_db_ids, call.outcome)
    /\ call' = [call EXCEPT !.done = TRUE]
    /\ UNCHANGED session

NextClient ==
    \/ ValidateCall
    \/ CompletionCall
    \/ ConnectionCall
    \/ QueryCall

SpecClient == InitClient /\ [][NextClient]_vars

Called(fn) == call.fn = fn /\ call.done

\* An entry the validation is to keep: a mapping with a role of the fixed
\* set and a content that is a string
Keepable(e) ==
    /\ e.t = "dict"
    /\ "role" \in DOMAIN e
    /\ e.role \in {"system", "user", "assistant"}
    /\ "content" \in DOMAIN e
    /\ e.content.t = "str"

NothingUsable(msgs) ==
    msgs.t # "list" \/ \A i \in DOMAIN msgs.v : ~Keepable(msgs.v[i])

\* What the turn shows for a structured error carrying the text
ShownForError(text) == ProcessResponse(Returned(ErrorResult(text), PyNone)).shown

\* C11: when the messages argument is not a list or none of its entries is
\* a mapping with a valid role and a string content, chat_completion returns
\* None and sends no request; the orchestrator ends such a turn as failed,
\* with no assistant content to append, and shows for it a message that no
\* structured error of the remote side is shown as.
C11_NothingUsableGivesAbsent ==
    (Called("chat_completion") /\ NothingUsable(call.msgs)) =>
        /\ ~ret.raised
        /\ ret.value = PyNone
        /\ ret.sent = PyNone
        /\ ~StructuredError(ret)
        /\ ~Truthy(ProcessResponse(ret).content)
        /\ ProcessResponse(ret).shown # ShownForError(ERROR_MESSAGES.rate_limit)
        /\ ProcessResponse(ret).shown # ShownForError(ERROR_MESSAGES.timeout)
        /\ ProcessResponse(ret).shown # ShownForError(StrConnectionError)

\* C12: on a list, _validate_messages returns, in input order, exactly the
\* entries that are mappings with a role in {system, user, assistant} and a
\* string content, each with its content sanitized, and drops every other
\* entry; it returns None only when its argument is not a list or when no
\* entry is kept.
C12_KeepsExactlyWellFormed ==
    Called("_validate_messages") =>
        /\ ~ret.raised
        /\ IF NothingUsable(call.msgs) THEN ret.value = PyNone
           ELSE LET kept == SelectSeq(call.msgs.v, Keepable)
                IN  /\ ret.value.t = "list"
                    /\ Len(ret.value.v) = Len(kept)
                    /\ \A i \in DOMAIN kept :
                           /\ ret.value.v[i].role = kept[i].role
                           /\ ret.value.v[i].content = _sanitize_input(kept[i].content)
                           /\ Sanitized(ret.value.v[i].content)

(***************************************************************************)
(* utils.extract_assistant_message called directly: every response that is *)
(* a mapping with or without a choices entry (a list of up to MaxChoices   *)
(* choices drawn from ChoiceShapes, or a value that is not a list) and     *)
(* with or without a top-level message entry, and values that are not      *)
(* mappings.  The texts under choices[0].message, choices[0].text and the  *)
(* top-level message differ.                                               *)
(* utils.enhance_prompt_with_rag called directly: every context that is a  *)
(* list of up to MaxDocs documents drawn from DocShapes or a value that is *)
(* not a list, two user messages, debug mode on and off.                   *)
(***************************************************************************)
MaxChoices == 2
MaxDocs == 2

TextA == PyStr(<<Run("b", 1)>>)
TextT == PyStr(<<Run("b", 2)>>)
TextB == PyStr(<<Run("b", 3)>>)

DocShapes ==
    << Doc(<<Run("b", 2)>>),
       Doc(<<Run("b", 3)>>),
       Doc(<<>>),
       PyDict([content |-> PyNone]),
       PyDict(<<>>),
       PyDict([title |-> TextA]),
       TextA,
       PyNone >>

OddContexts == <<PyNone, PyStr(<<>>), TextA, PyDict(<<>>), PyDict([content |-> TextA]), PyInt(0)>>

EnhanceArg(user_message, rag_context, debug_mode) ==
    [fn |-> "enhance_prompt_with_rag", user_message |-> user_message,
     rag_context |-> rag_context, debug_mode |-> debug_mode, done |-> FALSE]

ChoiceShapes ==
    << PyDict([message |-> PyDict([content |-> TextA])]),
       PyDict([text |-> TextT]),
       PyDict([message |-> PyDict([content |-> TextA]), text |-> TextT]),
       PyDict(<<>>),
       PyDict([message |-> PyDict(<<>>)]),
       PyDict([message |-> PyDict(<<>>), text |-> TextT]),
       PyDict([message |-> TextA]),
       PyDict([message |-> PyNone]),
       PyDict([message |-> PyDict([content |-> PyNone])]),
       PyDict([message |-> PyDict([content |-> PyInt(7)])]),
       PyDict([message |-> PyDict([content |-> PyList(<<TextA>>)])]),
       PyDict([text |-> PyNone]),
       TextA,
       PyNone >>

\* A choices entry that is not a list of choices
OddChoices == <<PyNone, PyInt(0), PyStr(<<>>), TextA, PyDict(<<>>), PyDict([id |-> TextA])>>

\* A top-level message entry
TopMessages ==
    << PyDict([content |-> TextB]),
       PyDict(<<>>),
       PyDict([content |-> PyNone]),
       TextB,
       PyNone >>

\* Responses that are not mappings
OddResponses == <<PyNone, PyInt(0), TextA, PyList(<<>>), PyDict(<<>>)>>

WithMessage(d, m) ==
    IF m = 0 THEN d
    ELSE IF "choices" \in DOMAIN d.v
         THEN PyDict([choices |-> d.v.choices, message |-> TopMessages[m]])
         ELSE PyDict([message |-> TopMessages[m]])

ExtractArg(resp) == [fn |-> "extract_assistant_message", resp |-> resp, done |-> FALSE]

InitUtils ==
    /\ SessionInit(<<>>)
    /\ \/ \E m \in 0..Len(TopMessages) :
              \/ \E n \in 0..MaxChoices : \E f \in [1..n -> DOMAIN ChoiceShapes] :
                     call = ExtractArg(WithMessage(
                                PyDict([choices |-> PyList([i \in 1..n |-> ChoiceShapes[f[i]]])]),
                                m))
              \/ \E j \in DOMAIN OddChoices :
                     call = ExtractArg(WithMessage(PyDict([choices |-> OddChoices[j]]), m))
              \/ m > 0 /\ call = ExtractArg(WithMessage(PyDict(<<>>), m))
       \/ \E j \in DOMAIN OddResponses : call = ExtractArg(OddResponses[j])
       \/ \E prompt \in Prompts, debug_mode \in BOOLEAN :
              \/ \E n \in 0..MaxDocs : \E f \in [1..n -> DOMAIN DocShapes] :
                     call = EnhanceArg(prompt, PyList([i \in 1..n |-> DocShapes[f[i]]]),
                                       debug_mode)
              \/ \E j \in DOMAIN OddContexts :
                     call = EnhanceArg(prompt, OddContexts[j], debug_mode)
    /\ ret = PyNone

ExtractCall ==
    /\ call.fn = "extract_assistant_message"
    /\ ~call.done
    /\ ret' = extract_assistant_message(call.resp)
    /\ call' = [call EXCEPT !.done = TRUE]
    /\ UNCHANGED session

EnhanceCall ==
    /\ call.fn = "enhance_prompt_with_rag"
    /\ ~call.done
    /\ ret' = PyStr(enhance_prompt_with_rag(call.user_message, call.rag_context,
                                            call.debug_mode))
    /\ call' = [call EXCEPT !.done = TRUE]
    /\ UNCHANGED session

NextUtils ==
    \/ ExtractCall
    \/ EnhanceCall

SpecUtils == InitUtils /\ [][NextUtils]_vars

IsMapping(x) == x.t = "dict"
HasKey(x, key) == IsMapping(x) /\ key \in DOMAIN x.v

\* The response has a non-empty choices sequence
HasFirstChoice(resp) ==
    /\ HasKey(resp, "choices")
    /\ resp.v.choices.t = "list"
    /\ resp.v.choices.v # <<>>

FirstChoice(resp) == resp.v.choices.v[1]

\* The first choice has a message that is a mapping
FirstHasMessage(resp) ==
    /\ HasFirstChoice(resp)
    /\ HasKey(FirstChoice(resp), "message")
    /\ IsMapping(FirstChoice(resp).v.message)

\* The first choice has no message but a text
FirstHasTextOnly(resp) ==
    /\ HasFirstChoice(resp)
    /\ ~HasKey(FirstChoice(resp), "message")
    /\ HasKey(FirstChoice(resp), "text")

\* d.content, absent when d has no content
ContentOf(d) == IF "content" \in DOMAIN d.v THEN d.v.content ELSE PyNone

\* C13: with a non-empty choices sequence, the result is the first choice's
\* message.content when that choice has a message, and the first choice's
\* text when it has no message but a text; the top-level message.content is
\* the result only when the first choice has neither. With
\* choices[0].message.content = A and a top-level message.content = B the
\* result is A.
C13_ChoicesBeforeFlatMessage ==
    Called("extract_assistant_message") =>
        /\ FirstHasMessage(call.resp) =>
               ret = ContentOf(FirstChoice(call.resp).v.message)
        /\ FirstHasTextOnly(call.resp) => ret = FirstChoice(call.resp).v.text
        /\ ret = TextB =>
               ~(HasFirstChoice(call.resp)
                 /\ (HasKey(FirstChoice(call.resp), "message")
                     \/ HasKey(FirstChoice(call.resp), "text")))

C13_Witness ==
    /\ Called("extract_assistant_message")
    /\ FirstHasMessage(call.resp)
    /\ ContentOf(FirstChoice(call.resp).v.message) = TextA
    /\ HasKey(call.resp, "message")
    /\ IsMapping(call.resp.v.message)
    /\ ContentOf(call.resp.v.message) = TextB
    /\ ret = TextA

\* The flat shape: a top-level message that is a mapping
HasFlatMessage(resp) == HasKey(resp, "message") /\ IsMapping(resp.v.message)

\* C14: for every response value the result is a string or None, and it is
\* None whenever the response has neither a first choice with a message or
\* a text nor a top-level message.
C14_StringOrAbsent ==
    Called("extract_assistant_message") =>
        /\ ret.t \in {"str", "none"}
        /\ (~FirstHasMessage(call.resp) /\ ~FirstHasTextOnly(call.resp)
              /\ ~HasFlatMessage(call.resp)) => ret = PyNone

\* The positions of the documents with non-empty content
UsableDocs(ctx) ==
    IF ctx.t # "list" THEN {}
    ELSE {i \in DOMAIN ctx.v :
              /\ HasKey(ctx.v[i], "content")
              /\ ctx.v[i].v.content.t = "str"
              /\ ctx.v[i].v.content.v # <<>>}

\* The k-th smallest element of a set of numbers
Nth(S, k) == CHOOSE i \in S : Cardinality({j \in S : j < i}) = k - 1

\* The block "[Document i]\n<content>" of the document at position i
Block(ctx, i) ==
    <<Run("[Document " \o ToString(i) \o "]\n", 13)>> \o ctx.v[i].v.content.v

\* sub occurs in s at position p
OccursAt(sub, s, p) == p + Len(sub) - 1 <= Len(s) /\ SubSeq(s, p, p + Len(sub) - 1) = sub

IsDocumentLabel(r) == \E i \in 0..MaxDocs + 1 : r.c = "[Document " \o ToString(i) \o "]\n"

\* C15: the result is the user message itself when the context is empty,
\* None, not a list, or holds no document with non-empty content; otherwise
\* it holds one block "[Document i]\n<content>" for each document with
\* non-empty content, i being the document's 1-based position, the blocks
\* in input order and no other block, and after them the user message; the
\* debug flag does not enter the result.
C15_AugmentedPrompt ==
    Called("enhance_prompt_with_rag") =>
        LET ctx == call.rag_context
            usable == UsableDocs(ctx)
            K == Cardinality(usable)
        IN  /\ IsStr(ret)
            /\ IF K = 0 THEN ret.v = call.user_message
               ELSE /\ \E at \in [1..K + 1 -> 1..Len(ret.v)] :
                           /\ \A k \in 1..K :
                                  /\ OccursAt(Block(ctx, Nth(usable, k)), ret.v, at[k])
                                  /\ at[k] + Len(Block(ctx, Nth(usable, k))) <= at[k + 1]
                           /\ OccursAt(call.user_message, ret.v, at[K + 1])
                    /\ Cardinality({p \in DOMAIN ret.v : IsDocumentLabel(ret.v[p])}) = K
            /\ ret.v = enhance_prompt_with_rag(call.user_message, ctx, ~call.debug_mode)

C15_Witness ==
    /\ Called("enhance_prompt_with_rag")
    /\ call.debug_mode
    /\ UsableDocs(call.rag_context) = {1, 2}
    /\ call.rag_context.v[1] # call.rag_context.v[2]
    /\ ret.v # call.user_message

(***************************************************************************)
(* Properties of test_connection and query_vector_db                       *)
(***************************************************************************)
AnswersStatus(code) == call.outcome.k = "status" /\ call.outcome.code = code

\* The text names the status code
CarriesStatus(text, code) == \E p \in DOMAIN text : text[p].c = ToString(code)

\* C16: test_connection returns a pair (ok, message) and never raises; ok
\* is true exactly for status 200; 401 gives the authentication-failure
\* message, 404 the endpoint-not-found message, any other status a failure
\* message of its own that carries the status code, a connection failure the
\* connection-error message and a timeout the timeout message.
C16_ConnectionTestPair ==
    Called("test_connection") =>
        /\ ~ret.raised
        /\ ret.ok \in BOOLEAN
        /\ IsStr(ret.message)
        /\ ret.ok <=> AnswersStatus(200)
        /\ AnswersStatus(401) =>
               ret.message.v = <<Run("Authentication failed. Check your API key.", 42)>>
        /\ AnswersStatus(404) =>
               ret.message.v = <<Run("Endpoint not found. Check your URL.", 35)>>
        /\ (call.outcome.k = "status" /\ call.outcome.code \notin {200, 401, 404}) =>
               /\ CarriesStatus(ret.message.v, call.outcome.code)
               /\ ret.message.v # test_connection(Status(401, PyNone)).message.v
               /\ ret.message.v # test_connection(Status(404, PyNone)).message.v
        /\ call.outcome.k = "connection_error" =>
               ret.message.v = ERROR_MESSAGES.connection
        /\ call.outcome.k = "timeout" => ret.message.v = ERROR_MESSAGES.timeout

C16_Witness ==
    /\ Called("test_connection")
    /\ AnswersStatus(404)
    /\ ~ret.ok

\* The outcomes of the POST that are a success: a status raise_for_status
\* lets through and a body that decodes
QuerySucceeds(o) == o.k = "status" /\ o.code < 400 /\ o.json

\* C17: for a query that is empty or not a string, query_vector_db returns
\* None at once and sends nothing; otherwise it sends one request, whose
\* content is the sanitized query, returns the decoded body as it is when
\* the POST succeeds and None when the POST fails in any way; it never
\* raises.
C17_QueryVectorDb ==
    Called("query_vector_db") =>
        /\ ~ret.raised
        /\ IF call.query.t # "str" \/ call.query.v = <<>>
           THEN ret.value = PyNone /\ ret.sent = PyNone
           ELSE /\ ret.sent.t = "dict"
                /\ ret.sent.v.content = _sanitize_input(call.query)
                /\ Sanitized(ret.sent.v.content)
                /\ ret.sent.v.vector_db_ids = call.vector_db_ids
                /\ IF QuerySucceeds(call.outcome) THEN ret.value = call.outcome.body
                   ELSE ret.value = PyNone

C17_Witness ==
    /\ Called("query_vector_db")
    /\ IsStr(call.query)
    /\ HasChar(call.query.v, NUL)
    /\ StrLen(call.query.v) > max_length
    /\ QuerySucceeds(call.outcome)
    /\ Truthy(ret.value)

(***************************************************************************)
(* Properties of the turn: the vector query that gives no context, the     *)
(* request body, the 2xx responses that end the turn as failed             *)
(***************************************************************************)
\* The vector query of the turn was made and gave nothing to augment with:
\* None (timeout, connection failure, status of 400 or more, a body that
\* does not decode), an empty list, a value that is not a list, or a list
\* with no document of non-empty content
VectorGaveNoContext == Issued("query_vector_db") # {} /\ UsableDocs(rag_results) = {}

CompletedWith(text) == Status(200, Choices(PyStr(text)))

\* C21: when the vector query fails or gives an empty or unusable result
\* the turn goes on: the outgoing snapshot ends with the user message whose
\* content is the user's text as entered, the chat completion is requested
\* with that message last, and a completion that answers with a text ends
\* the turn in Appended with that text as the assistant message.
C21_VectorFailureKeepsTurn ==
    VectorGaveNoContext =>
        /\ pc \in {"Dispatching", "Normalizing", "Appended", "Failed"}
        /\ messages_to_send # <<>>
        /\ messages_to_send[Len(messages_to_send)].role = "user"
        /\ messages_to_send[Len(messages_to_send)].content = PyStr(user_input)
        /\ pc \in {"Normalizing", "Appended", "Failed"} =>
               /\ Issued("chat_completion") # {}
               /\ LET body == net[Len(net)].sent.v.messages.v
                  IN  /\ body[Len(body)].role = "user"
                      /\ body[Len(body)].content = _sanitize_input(PyStr(user_input))
        /\ (pc \in {"Appended", "Failed"} /\ post = CompletedWith(AssistantText)) =>
               /\ pc = "Appended"
               /\ messages[Len(messages)].role = "assistant"
               /\ messages[Len(messages)].content = PyStr(AssistantText)

\* The vector query failed and the turn ended in Appended
C21_Witness ==
    /\ pc = "Appended"
    /\ VectorGaveNoContext
    /\ rag_results = PyNone
    /\ post = CompletedWith(AssistantText)

\* The sampling parameters of a request body are within the ranges of a
\* CompletionRequest: temperature in [0, 2], max_tokens in [64, 2048],
\* top_p in [0, 1]
SamplingInRange(body) ==
    /\ body.temperature \in 0..20
    /\ body.max_tokens \in 64..2048
    /\ body.top_p \in 0..100

OnlyValidatedMessages(body) ==
    /\ body.messages.t = "list"
    /\ body.messages.v # <<>>
    /\ \A i \in DOMAIN body.messages.v :
           /\ body.messages.v[i].role \in {"system", "user", "assistant"}
           /\ body.messages.v[i].content.t = "str"
           /\ Sanitized(body.messages.v[i].content)

\* C22: whatever arguments chat_completion is called with, the body of a
\* request it sends has temperature in [0, 2], max_tokens in [64, 2048] and
\* top_p in [0, 1], and its messages are validated ones: each with a role
\* of the fixed set and a sanitized string content.
C22_RequestBodyWithinRanges ==
    (Called("chat_completion") /\ ret.sent # PyNone) =>
        /\ SamplingInRange(ret.sent.v)
        /\ OnlyValidatedMessages(ret.sent.v)

(***************************************************************************)
(* The turn on the bodies a completion endpoint can answer a 2xx with: one *)
(* prompt, the configuration of initialize_session_state, and for the POST *)
(* of chat_completion every body of ResponseBodies under the statuses 200  *)
(* and 201.                                                                *)
(***************************************************************************)
ErrorAndChoices ==
    PyDict([error |-> PyStr(Lit("model overloaded", 16)),
            choices |-> PyList(<<PyDict([message |->
                                    PyDict([content |-> PyStr(AssistantText)])])>>)])

ResponseBodies ==
    << Choices(PyStr(AssistantText)),
       Choices(PyStr(<<>>)),
       Choices(PyNone),
       Choices(PyInt(7)),
       Choices(PyList(<<PyStr(AssistantText)>>)),
       PyDict([message |-> PyDict([content |-> PyStr(<<>>)])]),
       PyDict(<<>>),
       ErrorAndChoices >>

NextResponses ==
    \/ Submit(<<Run("a", 1)>>, Config(DEFAULT_CHAT_ENDPOINT, TRUE, <<>>, FALSE))
    \/ \E i \in DOMAIN VectorOutcomes : Augment(VectorOutcomes[i])
    \/ \E code \in {200, 201}, i \in DOMAIN ResponseBodies :
           Dispatch(Status(code, ResponseBodies[i]))
    \/ Normalize
    \/ ClearConversation

SpecResponses == Init /\ [][NextResponses]_vars

\* The turn is over and its completion was answered with a 2xx and a body
\* that decodes
EndedOn2xx ==
    /\ pc \in {"Appended", "Failed"}
    /\ post.k = "status"
    /\ post.code \in 200..299
    /\ post.json

NothingAppended ==
    /\ pc = "Failed"
    /\ RolesOf(messages) = RolesOf(step1)
    /\ messages[Len(messages)].role = "user"

\* The three bodies of a 2xx that end the turn as failed
C23_FailedOn2xx ==
    (/\ EndedOn2xx
     /\ \/ post.body = PyDict(<<>>)
        \/ HasKey(post.body, "error")
        \/ extract_assistant_message(post.body) = PyStr(<<>>)) => NothingAppended

\* C23: a turn whose completion is answered with a 2xx ends as failed, with
\* no assistant message appended, when the text extracted from the body is
\* the empty string, when the body is an empty mapping, and when the body
\* has a top-level "error" key, valid choices or not; and when the turn
\* ends with an assistant message appended, the text extracted from the
\* body is a non-empty string and is that message's content.
C23_AppendedOnlyForNonEmptyText ==
    /\ C23_FailedOn2xx
    /\ (EndedOn2xx /\ pc = "Appended") =>
           LET text == extract_assistant_message(post.body)
           IN  /\ text.t = "str"
               /\ text.v # <<>>
               /\ messages[Len(messages)].role = "assistant"
               /\ messages[Len(messages)].content = text

====
